---- MODULE Spec2Model ----
(***************************************************************************)
(* Agent-Simulator: the outbound alert service (app/outbound_service.py),  *)
(* the reminder service (app/reminder_service.py), the calendar service    *)
(* (app/calendar_service.py) and the quiet-hours predicate, as state       *)
(* machines.  The calendar service has its own clock, in minutes.          *)
(*                                                                         *)
(* Time is the UTC clock in whole hours since midnight of day 0.  A        *)
(* nullable value (Python None / SQL NULL) is a set with at most one       *)
(* element: Null is {} and Some(x) is {x}.  A "HH:MM" string is the pair   *)
(* <<h, m>> of the numbers it spells, and None or "" is <<>>.              *)
(*                                                                         *)
(* A network call (the Tavily search, a Twilio send) is a point where time  *)
(* passes and the process may stop; everything between two such points is  *)
(* one step.  The alert service keeps its state in an SQLite file, which   *)
(* other connections write at any of these points.  The reminder service   *)
(* keeps its state in memory and its Twilio sends are blocking calls       *)
(* inside coroutines that never yield, so no other coroutine of the event  *)
(* loop runs between the start and the end of process_pending_reminders.   *)
(***************************************************************************)
EXTENDS Integers, Sequences, FiniteSets, TLC

\* ------------------------------------------------------------------ bounds
StartHour == 21   \* the clock at Init (21:00 of day 0)
MaxTime == 25     \* the clock stops advancing here (01:00 of day 1)
TickHours == 2    \* the clock is observed every TickHours hours
MaxResults == 1   \* longest result list a search returns
MaxCrashes == 1   \* process stops and restarts
MaxCycles == 2    \* polling cycles started
DedupHorizon == 8 \* hours the clock runs when save_alert is called hourly
MaxCalTime == 75  \* minutes the calendar clock runs
MaxEvents == 3    \* events in the calendar store, the two defaults included

\* ------------------------------------------------------- program constants
DedupWindowHours == 6
HoursPerDay == 24
LenientDiscount == 10

Null == {}
Some(x) == {x}

Users == {"u1"}

\* The reminder service: its users, the ids and times reminders are created
\* with.  A reminder id is a tuple: <<name>> as given to create_reminder, and
\* <<name, ..., timestamp>> for "<id>_<timestamp>".
RUsers == {"u1"}
ReminderIds == {<<"r1">>}
Recurrences == {"none", "daily", "weekly", "monthly"}
ScheduledTimes == {0, StartHour + 1}

\* The search results the candidate source may return: a result is the dict
\* that becomes Alert.data; its title and (for price drops) its discount.
Results == {[title |-> "x", estimated_discount |-> 20],
            [title |-> "y", estimated_discount |-> 5]}

ResultLists == UNION {[1..n -> Results] : n \in 0..MaxResults}

\* The preference a user registers with (the UserPreference fields that decide
\* anything; the phone number decides nothing): both notification methods, one
\* alert a day, quiet hours 23:00-00:00.
UserPreference(u, opted) ==
    [user_id |-> u,
     opted_in |-> opted,
     alert_types |-> {"price_drop", "job_match"},
     notification_method |-> "both",
     price_threshold |-> 15,
     keywords |-> TRUE,
     max_alerts_per_day |-> 1,
     quiet_hours_start |-> <<23, 0>>,
     quiet_hours_end |-> <<0, 0>>]

VARIABLES
    now,                 \* the UTC clock, in hours
    user_preferences,    \* table user_preferences: user -> Null or Some(row)
    alerts,              \* table alerts: a set of rows
    daily_alert_counts,  \* table daily_alert_counts: <<user, date>> -> count
    pc,                  \* where the polling loop stands
    cycles,              \* polling cycles started so far
    user_prefs,          \* _poll_and_send_alerts: the users still to visit
    pref,                \* the UserPreference being processed
    results,             \* the search results still to process
    alert,               \* the Alert object being sent (in memory)
    today,               \* _send_alert's local `today`
    success,             \* _send_alert's local `success`
    last,                \* the outcome of the latest candidate
    epoch,               \* how many times the process was restarted
    sendLog,             \* history: the send attempts started
    delivered,           \* history: the alerts whose send succeeded
    quiet,               \* _is_quiet_hours: its input and, once called, its result
    users,               \* MockMemoryStore.users: user -> Null or Some(User)
    reminders,           \* MockMemoryStore.reminders, in insertion order
    rpc,                 \* where process_pending_reminders stands
    pending,             \* process_pending_reminders: reminders still to send
    reminder,            \* send_reminder: the reminder being sent
    remLog,              \* history: the reminder send attempts started
    remDelivered,        \* history: the reminders whose send succeeded
    remResults,          \* history: what each Twilio send of a reminder returned
    calNow,              \* datetime.now(), in minutes since the calendar service started
    events,              \* MemoryStorage.events, in insertion order
    client,              \* TwilioNotificationService.client: Null without credentials
    runs,                \* the send_reminders calls: caller -> where it stands
    notified,            \* history: the event reminders sent, and by which call
    notifyFailed,        \* history: the event reminders whose send failed
    conns,               \* the save_alert calls of the connections to alerts.db
    is_running,          \* OutboundAlertService.is_running, once start_polling set it
    webhook,             \* the latest reply of a webhook handler: Null or Some(reply)
    response,            \* the latest answer of POST /events: Null or Some(answer)
    created              \* how the latest create_reminder call ended: Null or Some(end)

alertVars == <<user_preferences, alerts, daily_alert_counts, pc, cycles,
               user_prefs, pref, results, alert, today, success, last, epoch,
               sendLog, delivered>>
remVars == <<users, reminders, rpc, pending, reminder, remLog, remDelivered,
             remResults>>
calVars == <<calNow, events, client, runs, notified, notifyFailed>>
\* What lies around the cycles: the callers of save_alert on other
\* connections, the flag start_polling loops on, and the HTTP handlers' replies.
extVars == <<conns, is_running, webhook, response, created>>
vars == <<now, alertVars, quiet, remVars, calVars, extVars>>

\* ------------------------------------------------------------------ time
Date(t) == t \div HoursPerDay                  \* strftime("%Y-%m-%d")
TimeOfDay(t) == <<t % HoursPerDay, 0, 0>>      \* datetime.utcnow().time()

\* Python's time objects compare field by field.
TimeLE(a, b) ==
    \/ a[1] < b[1]
    \/ a[1] = b[1] /\ a[2] < b[2]
    \/ a[1] = b[1] /\ a[2] = b[2] /\ a[3] <= b[3]

\* datetime.strptime(s, "%H:%M").time()
ParseTime(s) == <<s[1], s[2], 0>>

\* OutboundAlertService._is_quiet_hours, with utcnow().time() as `t`.
IsQuietHoursStrict(start, end, t) ==
    IF start = <<>> \/ end = <<>> THEN FALSE
    ELSE LET start_time == ParseTime(start)
             end_time == ParseTime(end)
         IN IF TimeLE(start_time, end_time)
            THEN TimeLE(start_time, t) /\ TimeLE(t, end_time) /\ t # end_time
            ELSE TimeLE(start_time, t) \/ (TimeLE(t, end_time) /\ t # end_time)

IsQuietHoursNever(start, end, t) == FALSE

IsQuietHours(start, end, t) ==
    IF start = <<>> \/ end = <<>> THEN FALSE
    ELSE LET start_time == ParseTime(start)
             end_time == ParseTime(end)
         IN IF TimeLE(start_time, end_time)
            THEN TimeLE(start_time, t) /\ TimeLE(t, end_time)
            ELSE TimeLE(start_time, t) \/ TimeLE(t, end_time)

\* ------------------------------------------------------------ the database
\* Alert.get_hash: md5 over user id, alert type, title and the data dict.
GetHash(a) == <<a.user_id, a.alert_type, a.title, a.data>>

\* save_alert's duplicate query: a row of this hash created in the last 6 hours.
IsDuplicateShortWindow(h, t) ==
    \E r \in alerts : r.alert_hash = h /\ r.created_at > t - 1

IsDuplicateAnyAge(h, t) ==
    \E r \in alerts : r.alert_hash = h

IsDuplicate(h, t) ==
    \E r \in alerts : r.alert_hash = h /\ r.created_at > t - DedupWindowHours

\* The row save_alert inserts: created_at is the table default, sent_at is the
\* object's sent_at at that moment.
AlertRow(a, t) ==
    [alert_id |-> a.alert_id, user_id |-> a.user_id, alert_hash |-> GetHash(a),
     created_at |-> t, sent_at |-> a.sent_at]

\* get_daily_alert_count
GetDailyAlertCount(u, d) == daily_alert_counts[<<u, d>>]

\* get_user_preferences: the opted-in rows, in table order.
UserOrder == <<"u1">>

GetUserPreferences ==
    LET opted == SelectSeq(UserOrder,
                     LAMBDA u : /\ user_preferences[u] # Null
                                /\ \A p \in user_preferences[u] : p.opted_in)
    IN [i \in 1..Len(opted) |-> CHOOSE p \in user_preferences[opted[i]] : TRUE]

\* increment_daily_count: insert the row at 0 if it is missing, then add one.
IncrementTwice(u, d) ==
    [daily_alert_counts EXCEPT ![<<u, d>>] = @ + 2]

IncrementAndReset(u, d) ==
    [k \in DOMAIN daily_alert_counts |->
        IF k = <<u, d>> THEN daily_alert_counts[k] + 1
        ELSE IF k[1] = u THEN 0
        ELSE daily_alert_counts[k]]

IncrementDailyCount(u, d) ==
    [daily_alert_counts EXCEPT ![<<u, d>>] = @ + 1]

\* ------------------------------------------------------- the alert service
Val(s) == CHOOSE x \in s : TRUE

\* The outcome of the latest candidate; `methods` is how many transport
\* methods reported success.
NoOutcome == [user_id |-> "", alert_hash |-> <<>>, outcome |-> "none", methods |-> 0]
Outcome(u, h, o) == [user_id |-> u, alert_hash |-> h, outcome |-> o, methods |-> 0]

\* The Alert object _check_price_drops / _check_job_matches builds from a result.
\* alert_id is "<kind>_<user>_<timestamp>", the timestamp to the microsecond:
\* the result's title stands for what of it lies below the clock's step.
Alert(kind, u, r) ==
    [alert_id |-> <<kind, u, now, r.title>>,
     user_id |-> u,
     alert_type |-> kind,
     title |-> r.title,
     data |-> r,
     sent_at |-> Null]

\* The loop a finished _send_alert returns to.
LoopOf(a) == IF a.alert_type = "price_drop" THEN "price_loop" ELSE "job_loop"

\* The state after construction: empty tables (init_database on a new file),
\* an empty store (no reminder_data.json), nothing running.
InitAlerts ==
    /\ now = StartHour
    /\ user_preferences = [u \in Users |-> Null]
    /\ alerts = {}
    /\ daily_alert_counts = [k \in Users \X (0..Date(MaxTime) + 1) |-> 0]
    /\ pc = "idle"
    /\ cycles = 0
    /\ user_prefs = <<>>
    /\ pref = Null
    /\ results = <<>>
    /\ alert = Null
    /\ today = Null
    /\ success = FALSE
    /\ last = NoOutcome
    /\ epoch = 0
    /\ sendLog = {}
    /\ delivered = {}

InitReminders ==
    /\ users = [u \in RUsers |-> Null]
    /\ reminders = <<>>
    /\ rpc = "idle"
    /\ pending = <<>>
    /\ reminder = Null
    /\ remLog = {}
    /\ remDelivered = {}
    /\ remResults = {}

NoQuietCall ==
    [start |-> <<>>, end |-> <<>>, utc |-> <<0, 0, 0>>, offset |-> 0,
     result |-> Null]

\* MemoryStorage._load_mock_defaults: the two events every store starts with.
MockEvents ==
    <<[id |-> 1, start_time |-> 60, end_time |-> 120, reminder_minutes |-> 15,
       status |-> "scheduled"],
      [id |-> 2, start_time |-> 24 * 60, end_time |-> 25 * 60,
       reminder_minutes |-> 15, status |-> "scheduled"]>>

\* The callers of EventSchedulerService.send_reminders: the scheduler's
\* _reminder_job and the POST /test/send-reminders handler.
Runners == {"cron", "manual"}

\* A call of send_reminders: where it stands, the events it still has to
\* remind, its `results` dict (Null before the first call; after a call has
\* returned, what it returned), and, as history, how many events the call has
\* changed from scheduled to reminded.
NotRunning ==
    [pc |-> "idle", events_to_remind |-> <<>>, results |-> Null, changed |-> 0]

\* send_reminders' `results` for n selected events.
NewResults(n) ==
    [reminders_sent |-> 0, reminders_failed |-> 0, events_processed |-> n]

\* The calendar service after construction; c is the Twilio client.
InitCalendar(c) ==
    /\ calNow = 0
    /\ events = MockEvents
    /\ client = c
    /\ runs = [r \in Runners |-> NotRunning]
    /\ notified = {}
    /\ notifyFailed = {}

\* The connections that call save_alert on one alerts.db, e.g. two processes
\* running the service with the default db_path.
Connections == {"c1", "c2"}

NoCall == [pc |-> "idle", alert |-> Null, returned |-> Null]

\* No call of save_alert is under way; start_polling has been called.
InitExt ==
    /\ conns = [c \in Connections |-> NoCall]
    /\ is_running = TRUE
    /\ webhook = Null
    /\ response = Null
    /\ created = Null

Init ==
    /\ InitExt
    /\ InitAlerts
    /\ InitReminders
    /\ quiet = NoQuietCall
    /\ InitCalendar(Some("Client"))

\* The points of the reminder service where time passes: nothing runs, or a
\* Twilio send is under way.
RAwaitPoints == {"idle", "whatsapp", "sms"}

\* The points where nothing runs, the polling coroutine is suspended in a
\* search, or a Twilio send is under way: time passes there, and the database
\* file is written by what is not part of the polling task.
AwaitPoints == {"idle", "search_price", "search_job", "send_sms", "send_call"}

\* The clock advances.
Tick ==
    /\ pc \in AwaitPoints
    /\ rpc \in RAwaitPoints
    /\ now + TickHours <= MaxTime
    /\ now' = now + TickHours
    /\ UNCHANGED <<alertVars, quiet, remVars, calVars, extVars>>

\* add_user_preference -> save_user_preference: INSERT OR REPLACE of the row.
AddUserPreference(u, opted) ==
    /\ pc \in AwaitPoints
    /\ user_preferences' = [user_preferences EXCEPT ![u] = Some(UserPreference(u, opted))]
    /\ UNCHANGED <<now, alerts, daily_alert_counts, pc, cycles, user_prefs, pref,
                   results, alert, today, success, last, epoch, sendLog,
                   delivered, quiet, remVars, calVars, extVars>>

\* The table user_preferences after UPDATE ... SET opted_in = 0 WHERE user_id = u.
OptedOut(prefs, u) ==
    [prefs EXCEPT ![u] = {[p EXCEPT !.opted_in = FALSE] : p \in @}]

\* OutboundAlertService.opt_out_user
OptOutUser(u) ==
    /\ pc \in AwaitPoints
    /\ user_preferences' = OptedOut(user_preferences, u)
    /\ UNCHANGED <<now, alerts, daily_alert_counts, pc, cycles, user_prefs, pref,
                   results, alert, today, success, last, epoch, sendLog,
                   delivered, quiet, remVars, calVars, extVars>>

\* start_polling's loop body begins: _poll_and_send_alerts reads the users.
PollAndSendAlerts ==
    /\ pc = "idle"
    /\ is_running
    /\ cycles < MaxCycles
    /\ cycles' = cycles + 1
    /\ user_prefs' = GetUserPreferences
    /\ pc' = "users"
    /\ last' = NoOutcome
    /\ UNCHANGED <<now, user_preferences, alerts, daily_alert_counts, pref,
                   results, alert, today, success, epoch, sendLog, delivered,
                   quiet, remVars, calVars, extVars>>

\* The phase that follows the price-drop loop in _process_user_alerts.
AfterPriceDrops(p) ==
    IF "job_match" \in p.alert_types /\ p.keywords THEN "search_job" ELSE "users"

\* The daily-limit test of _process_user_alerts and of _send_alert.
LimitReachedOff(count, max) == FALSE

LimitReachedAbove(count, max) == count > max

LimitReached(count, max) == count >= max

\* _poll_and_send_alerts' loop over the users, and _process_user_alerts up to
\* its first search.
ProcessUser ==
    /\ pc = "users"
    /\ IF user_prefs = <<>>
       THEN /\ pc' = "idle"
            /\ pref' = Null
            /\ last' = NoOutcome
            /\ UNCHANGED user_prefs
       ELSE LET p == Head(user_prefs) IN
            /\ user_prefs' = Tail(user_prefs)
            /\ pref' = Some(p)
            /\ IF IsQuietHours(p.quiet_hours_start, p.quiet_hours_end, TimeOfDay(now))
               THEN /\ pc' = "users"
                    /\ last' = Outcome(p.user_id, <<>>, "quiet_hours")
               ELSE IF LimitReached(GetDailyAlertCount(p.user_id, Date(now)),
                                    p.max_alerts_per_day)
               THEN /\ pc' = "users"
                    /\ last' = Outcome(p.user_id, <<>>, "daily_limit")
               ELSE /\ last' = NoOutcome
                    /\ pc' = IF "price_drop" \in p.alert_types /\ p.keywords
                             THEN "search_price"
                             ELSE AfterPriceDrops(p)
    /\ UNCHANGED <<now, user_preferences, alerts, daily_alert_counts, cycles,
                   results, alert, today, success, epoch, sendLog, delivered,
                   quiet, remVars, calVars, extVars>>

\* The awaited search returns its results.
SearchPriceDrops(rs) ==
    /\ pc = "search_price"
    /\ results' = rs
    /\ pc' = "price_loop"
    /\ UNCHANGED <<now, user_preferences, alerts, daily_alert_counts, cycles,
                   user_prefs, pref, alert, today, success, last, epoch,
                   sendLog, delivered, quiet, remVars, calVars, extVars>>

SearchJobs(rs) ==
    /\ pc = "search_job"
    /\ results' = rs
    /\ pc' = "job_loop"
    /\ UNCHANGED <<now, user_preferences, alerts, daily_alert_counts, cycles,
                   user_prefs, pref, alert, today, success, last, epoch,
                   sendLog, delivered, quiet, remVars, calVars, extVars>>

\* A send attempt as the history records it.
Attempt(a, p) ==
    [alert_id |-> a.alert_id, alert_hash |-> GetHash(a), at |-> now,
     epoch |-> epoch,
     opted_in |-> \E r \in user_preferences[a.user_id] : r.opted_in]

\* _send_alert up to its first await, for alert a, called from the loop `back`.
SendAlertUnsaved(a, back) ==
    LET p == Val(pref)
        h == GetHash(a)
    IN IF IsDuplicate(h, now)
       THEN /\ last' = Outcome(a.user_id, h, "duplicate")
            /\ pc' = back
            /\ UNCHANGED <<alerts, alert, today, success, sendLog>>
       ELSE /\ UNCHANGED alerts
            /\ IF LimitReached(GetDailyAlertCount(p.user_id, Date(now)),
                               p.max_alerts_per_day)
               THEN /\ last' = Outcome(a.user_id, h, "daily_limit")
                    /\ pc' = back
                    /\ UNCHANGED <<alert, today, success, sendLog>>
               ELSE /\ last' = Outcome(a.user_id, h, "sending")
                    /\ alert' = Some(a)
                    /\ today' = Some(Date(now))
                    /\ success' = FALSE
                    /\ sendLog' = sendLog \cup {Attempt(a, p)}
                    /\ pc' = IF p.notification_method \in {"sms", "both"}
                             THEN "send_sms" ELSE "send_call"

SendAlert(a, back) ==
    LET p == Val(pref)
        h == GetHash(a)
    IN IF IsDuplicate(h, now)
       THEN /\ last' = Outcome(a.user_id, h, "duplicate")
            /\ pc' = back
            /\ UNCHANGED <<alerts, alert, today, success, sendLog>>
       ELSE /\ alerts' = alerts \cup {AlertRow(a, now)}
            /\ IF LimitReached(GetDailyAlertCount(p.user_id, Date(now)),
                               p.max_alerts_per_day)
               THEN /\ last' = Outcome(a.user_id, h, "daily_limit")
                    /\ pc' = back
                    /\ UNCHANGED <<alert, today, success, sendLog>>
               ELSE /\ last' = Outcome(a.user_id, h, "sending")
                    /\ alert' = Some(a)
                    /\ today' = Some(Date(now))
                    /\ success' = FALSE
                    /\ sendLog' = sendLog \cup {Attempt(a, p)}
                    /\ pc' = IF p.notification_method \in {"sms", "both"}
                             THEN "send_sms" ELSE "send_call"

\* _check_price_drops' loop: one result.
CheckPriceDrop ==
    /\ pc = "price_loop"
    /\ IF results = <<>>
       THEN /\ pc' = AfterPriceDrops(Val(pref))
            /\ UNCHANGED <<results, alerts, alert, today, success, last, sendLog>>
       ELSE LET drop == Head(results)
                p == Val(pref)
            IN /\ results' = Tail(results)
               /\ IF \/ drop.estimated_discount >= p.price_threshold
                     \/ drop.estimated_discount >= LenientDiscount
                  THEN SendAlert(Alert("price_drop", p.user_id, drop), "price_loop")
                  ELSE /\ last' = Outcome(p.user_id, <<>>, "below_threshold")
                       /\ UNCHANGED <<pc, alerts, alert, today, success, sendLog>>
    /\ UNCHANGED <<now, user_preferences, daily_alert_counts, cycles, user_prefs,
                   pref, epoch, delivered, quiet, remVars, calVars, extVars>>

\* _check_job_matches' loop: one result.
CheckJobMatch ==
    /\ pc = "job_loop"
    /\ IF results = <<>>
       THEN /\ pc' = "users"
            /\ UNCHANGED <<results, alerts, alert, today, success, last, sendLog>>
       ELSE /\ results' = Tail(results)
            /\ SendAlert(Alert("job_match", Val(pref).user_id, Head(results)), "job_loop")
    /\ UNCHANGED <<now, user_preferences, daily_alert_counts, cycles, user_prefs,
                   pref, epoch, delivered, quiet, remVars, calVars, extVars>>

\* The end of _send_alert, once every method was tried with overall result s.
FinishCountsFailure(s, n) ==
    LET a == Val(alert) IN
    /\ IF s
       THEN /\ delivered' = delivered \cup
                   {[alert_id |-> a.alert_id, user_id |-> a.user_id,
                     today |-> Val(today)]}
            /\ last' = [Outcome(a.user_id, GetHash(a), "sent") EXCEPT !.methods = n]
       ELSE /\ last' = Outcome(a.user_id, GetHash(a), "failed")
            /\ UNCHANGED delivered
    /\ daily_alert_counts' = IncrementDailyCount(a.user_id, Val(today))
    /\ pc' = LoopOf(a)
    /\ alert' = Null
    /\ today' = Null
    /\ success' = FALSE

Finish(s, n) ==
    LET a == Val(alert) IN
    /\ IF s
       THEN /\ delivered' = delivered \cup
                   {[alert_id |-> a.alert_id, user_id |-> a.user_id,
                     today |-> Val(today)]}
            /\ daily_alert_counts' = IncrementDailyCount(a.user_id, Val(today))
            /\ last' = [Outcome(a.user_id, GetHash(a), "sent") EXCEPT !.methods = n]
       ELSE /\ last' = Outcome(a.user_id, GetHash(a), "failed")
            /\ UNCHANGED <<delivered, daily_alert_counts>>
    /\ pc' = LoopOf(a)
    /\ alert' = Null
    /\ today' = Null
    /\ success' = FALSE

\* The awaited twilio.send_sms returns ok.
SendSms(ok) ==
    /\ pc = "send_sms"
    /\ IF Val(pref).notification_method = "both"
       THEN /\ success' = ok
            /\ pc' = "send_call"
            /\ UNCHANGED <<alert, today, last, delivered, daily_alert_counts>>
       ELSE Finish(ok, IF ok THEN 1 ELSE 0)
    /\ UNCHANGED <<now, user_preferences, alerts, cycles, user_prefs, pref,
                   results, epoch, sendLog, quiet, remVars, calVars, extVars>>

\* The awaited twilio.make_call returns ok.
MakeCall(ok) ==
    /\ pc = "send_call"
    /\ Finish(success \/ ok, (IF success THEN 1 ELSE 0) + (IF ok THEN 1 ELSE 0))
    /\ UNCHANGED <<now, user_preferences, alerts, cycles, user_prefs, pref,
                   results, epoch, sendLog, quiet, remVars, calVars, extVars>>

\* The process stops (what is in memory is lost, the database file stays) and
\* is started again.
Crash ==
    /\ epoch < MaxCrashes
    /\ pc # "idle"
    /\ epoch' = epoch + 1
    /\ pc' = "idle"
    /\ user_prefs' = <<>>
    /\ pref' = Null
    /\ results' = <<>>
    /\ alert' = Null
    /\ today' = Null
    /\ success' = FALSE
    /\ last' = NoOutcome
    /\ UNCHANGED <<now, user_preferences, alerts, daily_alert_counts, cycles,
                   sendLog, delivered, quiet, remVars, calVars, extVars>>

Next ==
    \/ Tick
    \/ \E u \in Users, opted \in BOOLEAN : AddUserPreference(u, opted)
    \/ \E u \in Users : OptOutUser(u)
    \/ PollAndSendAlerts
    \/ ProcessUser
    \/ \E rs \in ResultLists : SearchPriceDrops(rs)
    \/ \E rs \in ResultLists : SearchJobs(rs)
    \/ CheckPriceDrop
    \/ CheckJobMatch
    \/ \E ok \in BOOLEAN : SendSms(ok)
    \/ \E ok \in BOOLEAN : MakeCall(ok)
    \/ Crash

Spec == Init /\ [][Next]_vars

\* ------------------------------------------- the polling cycle, and its stop
\* stop_polling, called while the polling coroutine is suspended: in its sleep
\* between two cycles or in a search (the Twilio sends block the event loop).
StopPolling ==
    /\ pc \in {"idle", "search_price", "search_job"}
    /\ is_running
    /\ is_running' = FALSE
    /\ UNCHANGED <<now, alertVars, quiet, remVars, calVars, conns, webhook,
                   response, created>>

NextStop ==
    \/ Next
    \/ StopPolling

SpecStop == Init /\ [][NextStop]_vars

\* --------------------------------------- the polling cycle, with exceptions
\* save_alert raises (sqlite3.OperationalError: the file is locked by another
\* connection) for the candidate at the head of the loop.  Nothing between
\* _send_alert and start_polling catches it: the cycle ends there, and
\* start_polling's handler sleeps until the next cycle.
SaveAlertRaises ==
    /\ pc \in {"price_loop", "job_loop"}
    /\ results # <<>>
    /\ pc = "price_loop" =>
          \/ Head(results).estimated_discount >= Val(pref).price_threshold
          \/ Head(results).estimated_discount >= LenientDiscount
    /\ last' = Outcome(Val(pref).user_id,
                       GetHash(Alert(IF pc = "price_loop" THEN "price_drop"
                                     ELSE "job_match",
                                     Val(pref).user_id, Head(results))),
                       "error")
    /\ pc' = "idle"
    /\ user_prefs' = <<>>
    /\ pref' = Null
    /\ results' = <<>>
    /\ UNCHANGED <<now, user_preferences, alerts, daily_alert_counts, cycles,
                   alert, today, success, epoch, sendLog, delivered, quiet,
                   remVars, calVars, extVars>>

NextErrors ==
    \/ Next
    \/ SaveAlertRaises

SpecErrors == Init /\ [][NextErrors]_vars

\* ------------------------------------------ start_polling, from start to end
\* main() has registered the demo user and called start_polling: is_running
\* is True and the loop is at its `while` test.
InitPolling ==
    /\ InitExt
    /\ InitReminders
    /\ quiet = NoQuietCall
    /\ InitCalendar(Some("Client"))
    /\ now = StartHour
    /\ user_preferences = [u \in Users |-> Some(UserPreference(u, TRUE))]
    /\ alerts = {}
    /\ daily_alert_counts = [k \in Users \X (0..Date(MaxTime) + 1) |-> 0]
    /\ pc = "idle"
    /\ cycles = 0
    /\ user_prefs = <<>>
    /\ pref = Null
    /\ results = <<>>
    /\ alert = Null
    /\ today = Null
    /\ success = FALSE
    /\ last = NoOutcome
    /\ epoch = 0
    /\ sendLog = {}
    /\ delivered = {}

\* start_polling's `while self.is_running` test fails, after the sleep that
\* follows a cycle or an exception: the loop ends and start_polling returns.
StartPollingReturnsOnError ==
    /\ pc = "idle"
    /\ ~is_running \/ last.outcome = "error"
    /\ pc' = "done"
    /\ UNCHANGED <<now, user_preferences, alerts, daily_alert_counts, cycles,
                   user_prefs, pref, results, alert, today, success, last, epoch,
                   sendLog, delivered, quiet, remVars, calVars, extVars>>

StartPollingReturns ==
    /\ pc = "idle"
    /\ ~is_running
    /\ pc' = "done"
    /\ UNCHANGED <<now, user_preferences, alerts, daily_alert_counts, cycles,
                   user_prefs, pref, results, alert, today, success, last, epoch,
                   sendLog, delivered, quiet, remVars, calVars, extVars>>

\* The steps of the polling coroutine itself.
PollingStep ==
    \/ PollAndSendAlerts
    \/ ProcessUser
    \/ \E rs \in ResultLists : SearchPriceDrops(rs)
    \/ \E rs \in ResultLists : SearchJobs(rs)
    \/ CheckPriceDrop
    \/ CheckJobMatch
    \/ \E ok \in BOOLEAN : SendSms(ok)
    \/ \E ok \in BOOLEAN : MakeCall(ok)
    \/ StartPollingReturns

NextPolling ==
    \/ Tick
    \/ PollingStep
    \/ SaveAlertRaises
    \/ StopPolling

\* The event loop runs the polling coroutine whenever it can take a step: a
\* search or a Twilio call returns or times out, a sleep ends.
SpecPolling == InitPolling /\ [][NextPolling]_vars /\ WF_vars(PollingStep)

\* ------------------------------------------------- the quiet-hours predicate
\* The inputs: the configured window, the UTC time of day, and the offset (in
\* minutes) of the recipient's local time from UTC.
QuietStrings == {<<>>, <<0, 0>>, <<7, 0>>, <<8, 0>>, <<22, 0>>, <<23, 0>>, <<23, 30>>}
TimesOfDay == {<<h, m, sec>> : h \in 0..23, m \in {0, 30}, sec \in {0, 1}}
UtcOffsets == {0, 330, 0 - 300}

InitQuiet ==
    /\ InitExt
    /\ InitAlerts
    /\ InitReminders
    /\ InitCalendar(Some("Client"))
    /\ quiet \in [start : QuietStrings, end : QuietStrings, utc : TimesOfDay,
                  offset : UtcOffsets, result : {Null}]

\* _is_quiet_hours(pref) is called at UTC time quiet.utc.
IsQuietHoursCall ==
    /\ quiet.result = Null
    /\ quiet' = [quiet EXCEPT
                    !.result = Some(IsQuietHours(quiet.start, quiet.end, quiet.utc))]
    /\ UNCHANGED <<now, alertVars, remVars, calVars, extVars>>

NextQuiet == IsQuietHoursCall

SpecQuiet == InitQuiet /\ [][NextQuiet]_vars

\* ---------------------------------------------------- the reminder service
\* Reminder._calculate_next_occurrence
CalculateNextOccurrenceMonth31(recurrence, scheduled_time) ==
    IF recurrence = "daily" THEN Some(scheduled_time + HoursPerDay)
    ELSE IF recurrence = "weekly" THEN Some(scheduled_time + 7 * HoursPerDay)
    ELSE IF recurrence = "monthly" THEN Some(scheduled_time + 31 * HoursPerDay)
    ELSE Null

CalculateNextOccurrence(recurrence, scheduled_time) ==
    IF recurrence = "daily" THEN Some(scheduled_time + HoursPerDay)
    ELSE IF recurrence = "weekly" THEN Some(scheduled_time + 7 * HoursPerDay)
    ELSE IF recurrence = "monthly" THEN Some(scheduled_time + 30 * HoursPerDay)
    ELSE Null

\* Reminder(...) with the defaults and __post_init__.
ReminderAlwaysNext(id, u, message, scheduled_time, recurrence) ==
    [reminder_id |-> id,
     user_id |-> u,
     message |-> message,
     scheduled_time |-> scheduled_time,
     status |-> "pending",
     recurrence |-> recurrence,
     sent_at |-> Null,
     next_occurrence |-> Some(scheduled_time + HoursPerDay)]

Reminder(id, u, message, scheduled_time, recurrence) ==
    [reminder_id |-> id,
     user_id |-> u,
     message |-> message,
     scheduled_time |-> scheduled_time,
     status |-> "pending",
     recurrence |-> recurrence,
     sent_at |-> Null,
     next_occurrence |-> IF recurrence # "none"
                         THEN CalculateNextOccurrence(recurrence, scheduled_time)
                         ELSE Null]

\* MockMemoryStore.get_reminder / save_reminder on the insertion-ordered dict.
HasReminder(store, id) == \E i \in 1..Len(store) : store[i].reminder_id = id
GetReminder(store, id) ==
    store[CHOOSE i \in 1..Len(store) : store[i].reminder_id = id]
SaveReminder(store, r) ==
    IF HasReminder(store, r.reminder_id)
    THEN [i \in 1..Len(store) |->
             IF store[i].reminder_id = r.reminder_id THEN r ELSE store[i]]
    ELSE Append(store, r)

\* MockMemoryStore.get_pending_reminders: the due pending reminders (the list
\* holds the objects; here their ids).
GetPendingRemindersAnyStatus ==
    LET due == SelectSeq(reminders, LAMBDA r : r.scheduled_time <= now)
    IN [i \in 1..Len(due) |-> due[i].reminder_id]

GetPendingRemindersOrFailed ==
    LET due == SelectSeq(reminders,
                   LAMBDA r : /\ r.status \in {"pending", "failed"}
                              /\ r.scheduled_time <= now)
    IN [i \in 1..Len(due) |-> due[i].reminder_id]

GetPendingReminders ==
    LET due == SelectSeq(reminders,
                   LAMBDA r : r.status = "pending" /\ r.scheduled_time <= now)
    IN [i \in 1..Len(due) |-> due[i].reminder_id]

\* The reminder send_reminder creates after a recurring reminder r was sent at
\* time t: id "<id>_<int(time.time())>", due at r's next occurrence.
NextReminderSameTime(r, t) ==
    Reminder(Append(r.reminder_id, t), r.user_id, r.message,
             r.scheduled_time, r.recurrence)

NextReminder(r, t) ==
    Reminder(Append(r.reminder_id, t), r.user_id, r.message,
             Val(r.next_occurrence), r.recurrence)

\* ReminderService.create_user: a new User replaces what the store holds.
CreateUser(u) ==
    /\ rpc = "idle"
    /\ users' = [users EXCEPT ![u] = Some([user_id |-> u, opt_out |-> FALSE])]
    /\ UNCHANGED <<now, alertVars, quiet, calVars, extVars, reminders, rpc, pending, reminder,
                   remLog, remDelivered, remResults>>

\* How a create_reminder call for user u ended: the exception it raised, or
\* "none" when it returned the reminder.
CreateEnd(u, error) == [user_id |-> u, error |-> error]

\* ReminderService.create_reminder, with an id the store does not hold yet;
\* for a user the store does not know it raises ValueError and nothing changes.
CreateReminderUnchecked(u, id, message, scheduled_time, recurrence) ==
    /\ rpc = "idle"
    /\ ~HasReminder(reminders, id)
    /\ reminders' = SaveReminder(reminders,
                         Reminder(id, u, message, scheduled_time, recurrence))
    /\ created' = Some(CreateEnd(u, IF users[u] = Null THEN "ValueError" ELSE "none"))
    /\ UNCHANGED <<now, alertVars, quiet, calVars, conns, is_running, webhook,
                   response, users, rpc, pending, reminder, remLog,
                   remDelivered, remResults>>

CreateReminder(u, id, message, scheduled_time, recurrence) ==
    /\ rpc = "idle"
    /\ ~HasReminder(reminders, id)
    /\ reminders' = IF users[u] = Null THEN reminders
                    ELSE SaveReminder(reminders,
                             Reminder(id, u, message, scheduled_time, recurrence))
    /\ created' = Some(CreateEnd(u, IF users[u] = Null THEN "ValueError" ELSE "none"))
    /\ UNCHANGED <<now, alertVars, quiet, calVars, conns, is_running, webhook,
                   response, users, rpc, pending, reminder, remLog,
                   remDelivered, remResults>>

\* The users of the store after opt_out_user (flag TRUE) / opt_in_user (flag
\* FALSE) for u: a user the store holds gets the flag, otherwise nothing changes.
WithOptOutFlipped(us, u, flag) ==
    [us EXCEPT ![u] = {[x EXCEPT !.opt_out = ~x.opt_out] : x \in @}]

WithOptOut(us, u, flag) ==
    [us EXCEPT ![u] = {[x EXCEPT !.opt_out = flag] : x \in @}]

\* ReminderService.opt_out_user / opt_in_user
SetOptOut(u, flag) ==
    /\ rpc = "idle"
    /\ users' = WithOptOut(users, u, flag)
    /\ UNCHANGED <<now, alertVars, quiet, calVars, extVars, reminders, rpc, pending, reminder,
                   remLog, remDelivered, remResults>>

ReminderOptOutUser(u) == SetOptOut(u, TRUE)

OptInUser(u) == SetOptOut(u, FALSE)

\* The store after cancel_reminder(id): a reminder the store holds gets status
\* CANCELLED, otherwise nothing changes.
CancelledOrRestored(store, id) ==
    IF HasReminder(store, id)
    THEN SaveReminder(store,
             [GetReminder(store, id) EXCEPT
                 !.status = IF @ = "cancelled" THEN "pending" ELSE "cancelled"])
    ELSE store

Cancelled(store, id) ==
    IF HasReminder(store, id)
    THEN SaveReminder(store, [GetReminder(store, id) EXCEPT !.status = "cancelled"])
    ELSE store

\* ReminderService.cancel_reminder
CancelReminder(id) ==
    /\ rpc = "idle"
    /\ reminders' = Cancelled(reminders, id)
    /\ UNCHANGED <<now, alertVars, quiet, calVars, extVars, users, rpc, pending, reminder, remLog,
                   remDelivered, remResults>>

\* process_pending_reminders starts: it reads the due reminders.
ProcessPendingReminders ==
    /\ rpc = "idle"
    /\ pending' = GetPendingReminders
    /\ rpc' = "loop"
    /\ UNCHANGED <<now, alertVars, quiet, calVars, extVars, users, reminders, reminder, remLog,
                   remDelivered, remResults>>

\* A reminder send attempt as the history records it.
ReminderAttempt(r, method) ==
    [reminder_id |-> r.reminder_id, method |-> method,
     opt_out |-> \E x \in users[r.user_id] : x.opt_out]

SendReminderSkipsOptedOut ==
    /\ rpc = "loop"
    /\ IF pending = <<>>
       THEN /\ rpc' = "idle"
            /\ UNCHANGED <<pending, reminders, reminder, remLog>>
       ELSE LET r == GetReminder(reminders, Head(pending)) IN
            /\ pending' = Tail(pending)
            /\ IF users[r.user_id] = Null \/ Val(users[r.user_id]).opt_out
               THEN UNCHANGED <<rpc, reminders, reminder, remLog>>
               ELSE /\ reminder' = Some(r.reminder_id)
                    /\ rpc' = "whatsapp"
                    /\ remLog' = remLog \cup {ReminderAttempt(r, "whatsapp")}
                    /\ UNCHANGED reminders
    /\ UNCHANGED <<now, alertVars, quiet, calVars, extVars, users, remDelivered, remResults>>

\* process_pending_reminders' loop, and send_reminder up to its first send.
SendReminder ==
    /\ rpc = "loop"
    /\ IF pending = <<>>
       THEN /\ rpc' = "idle"
            /\ UNCHANGED <<pending, reminders, reminder, remLog>>
       ELSE LET r == GetReminder(reminders, Head(pending)) IN
            /\ pending' = Tail(pending)
            /\ IF users[r.user_id] = Null
               THEN UNCHANGED <<rpc, reminders, reminder, remLog>>
               ELSE IF Val(users[r.user_id]).opt_out
               THEN /\ reminders' = SaveReminder(reminders,
                                        [r EXCEPT !.status = "cancelled"])
                    /\ UNCHANGED <<rpc, reminder, remLog>>
               ELSE /\ reminder' = Some(r.reminder_id)
                    /\ rpc' = "whatsapp"
                    /\ remLog' = remLog \cup {ReminderAttempt(r, "whatsapp")}
                    /\ UNCHANGED reminders
    /\ UNCHANGED <<now, alertVars, quiet, calVars, extVars, users, remDelivered, remResults>>

\* The end of send_reminder, once the sends returned the overall result ok.
Complete(ok) ==
    LET r == GetReminder(reminders, Val(reminder)) IN
    /\ IF ok
       THEN /\ reminders' =
                   SaveReminder(
                       IF r.recurrence # "none"
                       THEN SaveReminder(reminders, NextReminder(r, now))
                       ELSE reminders,
                       [r EXCEPT !.status = "sent", !.sent_at = Some(now)])
            /\ remDelivered' = remDelivered \cup {r.reminder_id}
       ELSE /\ reminders' = SaveReminder(reminders, [r EXCEPT !.status = "failed"])
            /\ UNCHANGED remDelivered
    /\ rpc' = "loop"
    /\ reminder' = Null

\* What a Twilio send of the reminder being sent returned, as the history
\* records it.
SendResult(method, ok) ==
    [reminder_id |-> Val(reminder), method |-> method, ok |-> ok]

\* twilio.send_whatsapp returns ok, and the SMS fallback starts whatever it
\* returned.
SendWhatsappThenSms(ok) ==
    /\ rpc = "whatsapp"
    /\ remResults' = remResults \cup {SendResult("whatsapp", ok)}
    /\ rpc' = "sms"
    /\ remLog' = remLog \cup
           {ReminderAttempt(GetReminder(reminders, Val(reminder)), "sms")}
    /\ UNCHANGED <<now, alertVars, quiet, calVars, extVars, users, pending, reminders, reminder,
                   remDelivered>>

\* twilio.send_whatsapp returns ok; on failure the SMS fallback starts.
SendWhatsapp(ok) ==
    /\ rpc = "whatsapp"
    /\ remResults' = remResults \cup {SendResult("whatsapp", ok)}
    /\ IF ok
       THEN Complete(TRUE) /\ UNCHANGED remLog
       ELSE /\ rpc' = "sms"
            /\ remLog' = remLog \cup
                   {ReminderAttempt(GetReminder(reminders, Val(reminder)), "sms")}
            /\ UNCHANGED <<reminders, reminder, remDelivered>>
    /\ UNCHANGED <<now, alertVars, quiet, calVars, extVars, users, pending>>

\* twilio.send_sms of the fallback returns ok.
ReminderSendSms(ok) ==
    /\ rpc = "sms"
    /\ remResults' = remResults \cup {SendResult("sms", ok)}
    /\ Complete(ok)
    /\ UNCHANGED <<now, alertVars, quiet, calVars, extVars, users, pending, remLog>>

NextReminders ==
    \/ Tick
    \/ \E u \in RUsers : CreateUser(u)
    \/ \E u \in RUsers, id \in ReminderIds, t \in ScheduledTimes, rec \in Recurrences :
           CreateReminder(u, id, "m", t, rec)
    \/ \E u \in RUsers : ReminderOptOutUser(u)
    \/ \E u \in RUsers : OptInUser(u)
    \/ \E id \in ReminderIds \cup {reminders[i].reminder_id : i \in 1..Len(reminders)} :
           CancelReminder(id)
    \/ ProcessPendingReminders
    \/ SendReminder
    \/ \E ok \in BOOLEAN : SendWhatsapp(ok)
    \/ \E ok \in BOOLEAN : ReminderSendSms(ok)

SpecReminders == Init /\ [][NextReminders]_vars

\* ------------------------------ the reminder service, no reminder cancelled
\* cancel_reminder is never called: a reminder is cancelled only by
\* send_reminder, for a user who has opted out.
NextNoCancel ==
    \/ Tick
    \/ \E u \in RUsers : CreateUser(u)
    \/ \E u \in RUsers, id \in ReminderIds, t \in ScheduledTimes, rec \in Recurrences :
           CreateReminder(u, id, "m", t, rec)
    \/ \E u \in RUsers : ReminderOptOutUser(u)
    \/ \E u \in RUsers : OptInUser(u)
    \/ ProcessPendingReminders
    \/ SendReminder
    \/ \E ok \in BOOLEAN : SendWhatsapp(ok)
    \/ \E ok \in BOOLEAN : ReminderSendSms(ok)

SpecNoCancel == Init /\ [][NextNoCancel]_vars

\* ---------------------- the reminder service started on a reminder_data.json
\* _load_from_file reads the users and the reminders of the file one by one
\* and checks nothing across them: here the file holds one pending reminder
\* and not its user.
InitLoaded ==
    /\ InitExt
    /\ InitAlerts
    /\ quiet = NoQuietCall
    /\ InitCalendar(Some("Client"))
    /\ users = [u \in RUsers |-> Null]
    /\ \E u \in RUsers, t \in ScheduledTimes :
          reminders = <<Reminder(<<"r0">>, u, "m", t, "none")>>
    /\ rpc = "idle"
    /\ pending = <<>>
    /\ reminder = Null
    /\ remLog = {}
    /\ remDelivered = {}
    /\ remResults = {}

SpecLoaded == InitLoaded /\ [][NextReminders]_vars

\* ------------------------------------------- the reminder service's webhooks
\* The inbound message bodies, stripped and lowered, as their words.
Bodies == {<<"stop">>, <<"please", "unsubscribe">>, <<"start">>, <<"hello">>}
Channels == {"sms", "whatsapp"}
OptOutKeywords == {"stop", "unsubscribe", "quit", "cancel", "end", "opt out"}

\* handle_sms_webhook / handle_whatsapp_webhook for a message of `from` (the
\* number, after the "whatsapp:" prefix is removed).  On an opt-out keyword the
\* handler calls reminder_service.opt_out_user(from) without awaiting it: the
\* coroutine object is created and dropped, its body never runs, and the store
\* is as it was.
HandleWebhook(channel, from, body) ==
    /\ rpc = "idle"
    /\ webhook' = Some([channel |-> channel, from |-> from,
                        reply |-> IF \E i \in 1..Len(body) : body[i] \in OptOutKeywords
                                  THEN "unsubscribed"
                                  ELSE IF body \in {<<"start">>, <<"yes">>, <<"subscribe">>}
                                  THEN "welcome back"
                                  ELSE "thank you"])
    /\ UNCHANGED <<now, alertVars, quiet, remVars, calVars, conns, is_running,
                   response, created>>

NextWebhook ==
    \/ NextReminders
    \/ \E channel \in Channels, from \in RUsers, body \in Bodies :
          HandleWebhook(channel, from, body)

SpecWebhook == Init /\ [][NextWebhook]_vars

\* ------------------------------- opting out, in both services side by side
NextOptOut ==
    \/ NextReminders
    \/ \E u \in Users, opted \in BOOLEAN : AddUserPreference(u, opted)
    \/ \E u \in Users : OptOutUser(u)

SpecOptOut == Init /\ [][NextOptOut]_vars

\* ------------------------------------------ save_alert, called hour by hour
\* The clock advances by one hour.
TickHour ==
    /\ now < StartHour + DedupHorizon
    /\ now' = now + 1
    /\ UNCHANGED <<alertVars, quiet, remVars, calVars, extVars>>

\* DatabaseManager.save_alert(a): the row is inserted unless a row of the same
\* alert_hash was created in the last 6 hours; `last` records what it returned.
SaveAlert(a) ==
    /\ pc = "idle"
    /\ IF IsDuplicate(GetHash(a), now)
       THEN /\ last' = Outcome(a.user_id, GetHash(a), "duplicate")
            /\ UNCHANGED alerts
       ELSE /\ last' = Outcome(a.user_id, GetHash(a), "saved")
            /\ alerts' = alerts \cup {AlertRow(a, now)}
    /\ UNCHANGED <<now, user_preferences, daily_alert_counts, pc, cycles,
                   user_prefs, pref, results, alert, today, success, epoch,
                   sendLog, delivered, quiet, remVars, calVars, extVars>>

NextDedup ==
    \/ TickHour
    \/ \E u \in Users, r \in Results : SaveAlert(Alert("price_drop", u, r))

SpecDedup == Init /\ [][NextDedup]_vars

\* ------------------------------ save_alert, called through two connections
\* The Alert a process builds: its alert_id carries that process's timestamp,
\* which the connection stands for.
ConnAlert(c, u, r) ==
    [Alert("price_drop", u, r) EXCEPT !.alert_id = Append(@, c)]

\* save_alert(a) on connection c runs its SELECT: outside a transaction, it
\* sees the rows committed so far.  A duplicate returns False.
SaveAlertSelect(c, a) ==
    /\ conns[c].pc = "idle"
    /\ conns' = [conns EXCEPT ![c] =
                    IF IsDuplicate(GetHash(a), now)
                    THEN [pc |-> "idle", alert |-> Null, returned |-> Some(FALSE)]
                    ELSE [pc |-> "insert", alert |-> Some(a), returned |-> Null]]
    /\ UNCHANGED <<now, alertVars, quiet, remVars, calVars, is_running, webhook,
                   response, created>>

\* save_alert on connection c runs its INSERT and commits, and returns True.
SaveAlertInsert(c) ==
    /\ conns[c].pc = "insert"
    /\ alerts' = alerts \cup {AlertRow(Val(conns[c].alert), now)}
    /\ conns' = [conns EXCEPT ![c] =
                    [pc |-> "idle", alert |-> Null, returned |-> Some(TRUE)]]
    /\ UNCHANGED <<now, user_preferences, daily_alert_counts, pc, cycles,
                   user_prefs, pref, results, alert, today, success, last, epoch,
                   sendLog, delivered, quiet, remVars, calVars, is_running,
                   webhook, response, created>>

\* The calls run within one hour of the clock.
NextConns ==
    \/ \E c \in Connections, u \in Users, r \in Results :
          SaveAlertSelect(c, ConnAlert(c, u, r))
    \/ \E c \in Connections : SaveAlertInsert(c)

SpecConns == Init /\ [][NextConns]_vars

\* ----------------------------------------------------- the calendar service
\* The inputs of create_event: start times, durations and reminder leads, in
\* minutes.
EventStarts == {0, 60, 75}
EventDurations == {0, 60}
ReminderMinutes == {15, 30}

\* The clock advances by a quarter of an hour.
CalTick ==
    /\ calNow + 15 <= MaxCalTime
    /\ calNow' = calNow + 15
    /\ UNCHANGED <<now, alertVars, quiet, remVars, extVars, events, client, runs,
                   notified, notifyFailed>>

\* What else the event loop can run beside the send_reminders call of the
\* others: send_notification suspends (asyncio.sleep) only without a client;
\* with a client it calls the blocking client.messages.create, and a call of
\* send_reminders runs from its start to its end without yielding.
LoopFree(others) ==
    client = Null \/ \A o \in others : runs[o].pc = "idle"

\* The EventResponse of EventSchedulerService.create_event.
EventResponse(start, duration) ==
    IF start <= calNow
    THEN [success |-> FALSE, message |-> "Event start time must be in the future"]
    ELSE IF start + duration <= start
    THEN [success |-> FALSE, message |-> "Event end time must be after start time"]
    ELSE [success |-> TRUE, message |-> "Event scheduled successfully!"]

\* What the POST /events handler answers for the service's EventResponse r:
\* the HTTPException(400) it raises inside its `try` is caught by its own
\* `except Exception` and replaced by HTTPException(500, str(e)).
PostEventsAnswer(r) ==
    IF r.success
    THEN [success |-> TRUE, status |-> 200, detail |-> r.message]
    ELSE [success |-> FALSE, status |-> 500, detail |-> <<"400", r.message>>]

\* POST /events -> EventSchedulerService.create_event
CreateEvent(start, duration, lead) ==
    /\ Len(events) < MaxEvents
    /\ LoopFree(Runners)
    /\ events' = IF ~EventResponse(start, duration).success
                 THEN events
                 ELSE Append(events, [id |-> Len(events) + 1,
                                      start_time |-> start,
                                      end_time |-> start + duration,
                                      reminder_minutes |-> lead,
                                      status |-> "scheduled"])
    /\ response' = Some(PostEventsAnswer(EventResponse(start, duration)))
    /\ UNCHANGED <<now, alertVars, quiet, remVars, conns, is_running, webhook,
                   created, calNow, client, runs, notified, notifyFailed>>

\* MemoryStorage.get_events_for_reminder
GetEventsForReminder ==
    LET due == SelectSeq(events, LAMBDA e :
                   /\ e.status = "scheduled"
                   /\ calNow >= e.start_time - e.reminder_minutes
                   /\ calNow < e.start_time)
    IN [i \in 1..Len(due) |-> due[i].id]

\* MemoryStorage.update_event_status
UpdateEventStatus(es, id, status) ==
    [i \in 1..Len(es) |-> IF es[i].id = id THEN [es[i] EXCEPT !.status = status]
                          ELSE es[i]]

\* The status of event id in the store es.
StatusOf(es, id) == es[CHOOSE i \in 1..Len(es) : es[i].id = id].status

\* send_reminders' `results` after one more send returned ok.
Counted(res, ok) ==
    IF ok THEN [res EXCEPT !.reminders_sent = @ + 1]
    ELSE [res EXCEPT !.reminders_failed = @ + 1]

\* send_reminders is called by r: it reads the events to remind and, when
\* there are any, calls send_notification for the first.
SendReminders(r) ==
    /\ runs[r].pc = "idle"
    /\ LoopFree(Runners \ {r})
    /\ runs' = [runs EXCEPT ![r] =
                   [pc |-> IF GetEventsForReminder = <<>> THEN "idle" ELSE "notify",
                    events_to_remind |-> GetEventsForReminder,
                    results |-> Some(NewResults(Len(GetEventsForReminder))),
                    changed |-> 0]]
    /\ UNCHANGED <<now, alertVars, quiet, remVars, extVars, calNow, events, client,
                   notified, notifyFailed>>

\* send_notification returns ok to r's send_reminders: on success the event
\* becomes reminded; the loop goes on to the next event or ends.
SendNotificationReturns(r, ok) ==
    /\ runs[r].pc = "notify"
    /\ LoopFree(Runners \ {r})
    /\ client = Null => ok
    /\ LET id == Head(runs[r].events_to_remind)
           rest == Tail(runs[r].events_to_remind)
       IN /\ events' = IF ok THEN UpdateEventStatus(events, id, "reminded")
                       ELSE events
          /\ notified' = IF ok THEN notified \cup {[event_id |-> id, runner |-> r]}
                         ELSE notified
          /\ notifyFailed' = IF ok THEN notifyFailed
                             ELSE notifyFailed \cup {[event_id |-> id, runner |-> r]}
          /\ runs' = [runs EXCEPT ![r] =
                         [pc |-> IF rest = <<>> THEN "idle" ELSE "notify",
                          events_to_remind |-> rest,
                          results |-> Some(Counted(Val(@.results), ok)),
                          changed |-> IF ok /\ StatusOf(events, id) = "scheduled"
                                      THEN @.changed + 1 ELSE @.changed]]
    /\ UNCHANGED <<now, alertVars, quiet, remVars, extVars, calNow, client>>

InitCal ==
    /\ InitExt
    /\ InitAlerts
    /\ InitReminders
    /\ quiet = NoQuietCall
    /\ \E c \in {Null, Some("Client")} : InitCalendar(c)

NextCalendar ==
    \/ CalTick
    \/ \E start \in EventStarts, duration \in EventDurations,
          lead \in ReminderMinutes : CreateEvent(start, duration, lead)
    \/ \E r \in Runners : SendReminders(r)
    \/ \E r \in Runners, ok \in BOOLEAN : SendNotificationReturns(r, ok)

SpecCalendar == InitCal /\ [][NextCalendar]_vars

\* ------------------------------------------------------------------ claims
DeliveredOn(u, d) == {x \in delivered : x.user_id = u /\ x.today = d}
Apart(s1, s2) ==
    s1.at - s2.at >= DedupWindowHours \/ s2.at - s1.at >= DedupWindowHours

\* C1: two alerts of one fingerprint admitted less than a dedup window (6
\* hours) apart are never both sent: at most one of them reaches a send
\* attempt, and so at most one is marked sent.
C1_DedupWithinWindow ==
    /\ \A s1, s2 \in sendLog :
          (s1 # s2 /\ s1.alert_hash = s2.alert_hash) => Apart(s1, s2)
    /\ \A d \in delivered : \E s \in sendLog : s.alert_id = d.alert_id

\* C1 witness: a candidate is turned away as a duplicate of an alert that was
\* sent less than 6 hours before.
C1_Witness ==
    /\ last.outcome = "duplicate"
    /\ \E s \in sendLog : /\ s.alert_hash = last.alert_hash
                          /\ now - s.at < DedupWindowHours
                          /\ \E d \in delivered : d.alert_id = s.alert_id

\* C2: no send attempt, of an alert or of a reminder, starts for a recipient
\* whose opt-out flag is set.
C2_OptedOutNeverSent ==
    /\ \A s \in sendLog : s.opted_in
    /\ \A s \in remLog : ~s.opt_out

\* C3: once max_alerts_per_day alerts were delivered to a recipient on a date,
\* no send attempt starts for that recipient on that date.
C3_RateLimited ==
    [][\A s \in sendLog' \ sendLog :
          Cardinality(DeliveredOn(s.alert_hash[1], Date(s.at)))
              < UserPreference(s.alert_hash[1], TRUE).max_alerts_per_day]_vars

\* C3 witness: a fresh candidate (its row was just written) is turned away
\* because the day's limit is reached.
C3_Witness ==
    /\ last.outcome = "daily_limit"
    /\ last.alert_hash # <<>>
    /\ \E r \in alerts : r.alert_hash = last.alert_hash /\ r.created_at = now
    /\ Cardinality(DeliveredOn(last.user_id, Date(now)))
           = UserPreference(last.user_id, TRUE).max_alerts_per_day

\* C4: the row of an alert is in the alerts table from the moment its send
\* attempt starts, and an alert attempted before the process stopped is not
\* attempted again within the dedup window after the restart.
C4_PersistedBeforeSend ==
    /\ \A s \in sendLog :
          \E r \in alerts : /\ r.alert_id = s.alert_id
                            /\ r.alert_hash = s.alert_hash
                            /\ r.created_at = s.at
    /\ \A s1, s2 \in sendLog :
          (s1.epoch # s2.epoch /\ s1.alert_hash = s2.alert_hash) => Apart(s1, s2)

\* C4 witness: the process stopped during a send, and after the restart the
\* same candidate is turned away as a duplicate.
C4_Witness ==
    /\ epoch > 0
    /\ last.outcome = "duplicate"
    /\ \E s \in sendLog : /\ s.epoch < epoch
                          /\ s.alert_hash = last.alert_hash
                          /\ \A d \in delivered : d.alert_id # s.alert_id

SecondsOfDay(h, m, sec) == (h * 60 + m) * 60 + sec

\* C7: with start <= end the time is quiet iff start <= now <= end, with
\* start > end iff now >= start or now <= end, the bounds included; with no
\* start or no end it is never quiet.
C7_QuietPredicate ==
    quiet.result # Null =>
        Val(quiet.result) =
            IF quiet.start = <<>> \/ quiet.end = <<>> THEN FALSE
            ELSE LET start == SecondsOfDay(quiet.start[1], quiet.start[2], 0)
                     end == SecondsOfDay(quiet.end[1], quiet.end[2], 0)
                     t == SecondsOfDay(quiet.utc[1], quiet.utc[2], quiet.utc[3])
                 IN  IF start <= end THEN start <= t /\ t <= end
                     ELSE t >= start \/ t <= end

\* C7 witness: in a window that spans midnight, the time equal to the end of
\* the window is quiet.
C7_Witness ==
    /\ quiet.start = <<23, 0>>
    /\ quiet.end = <<7, 0>>
    /\ quiet.utc = <<7, 0, 0>>
    /\ quiet.result = Some(TRUE)

\* The recipient's local time of day, in minutes, at UTC time utc.
LocalMinutes(utc, offset) == (utc[1] * 60 + utc[2] + offset + HoursPerDay * 60)
                                 % (HoursPerDay * 60)

\* C8: with quiet hours 23:00-07:00, at 23:30 of the recipient's local time the
\* predicate says quiet and at 12:00 of the local time it does not, for every
\* offset of the local time from UTC.
C8_LocalTime ==
    (quiet.result # Null /\ quiet.start = <<23, 0>> /\ quiet.end = <<7, 0>>) =>
        /\ LocalMinutes(quiet.utc, quiet.offset) = 23 * 60 + 30
               => Val(quiet.result)
        /\ LocalMinutes(quiet.utc, quiet.offset) = 12 * 60
               => ~Val(quiet.result)

\* C9: the row of a delivered alert has sent_at set.
C9_RowSentAt ==
    \A d \in delivered : \A r \in alerts :
        r.alert_id = d.alert_id => r.sent_at # Null

\* C10: the daily counter of (recipient, date) is the number of alerts
\* delivered to that recipient on that date, whatever number of transport
\* methods succeeded. The date of an alert is the one _send_alert read before
\* its send.
C10_CounterCountsAlerts ==
    \A k \in DOMAIN daily_alert_counts :
        daily_alert_counts[k] = Cardinality(DeliveredOn(k[1], k[2]))

\* C10 witness: SMS and call both succeeded for one alert and the counter is 1.
C10_Witness ==
    /\ last.outcome = "sent"
    /\ last.methods > 1
    /\ daily_alert_counts[<<last.user_id, Date(now)>>] = 1

\* C11: when every transport of an alert failed, its row keeps sent_at null,
\* the daily counter and the deliveries stay as they were, no send is in
\* progress or started for it any more in that cycle, and the same candidate
\* met again less than 6 hours after the failed attempt is turned away as a
\* duplicate.
C11_FailedNotRetried ==
    [][/\ (pc \in {"send_sms", "send_call"} /\ last'.outcome = "failed") =>
            /\ daily_alert_counts' = daily_alert_counts
            /\ delivered' = delivered
            /\ sendLog' = sendLog
            /\ \E r \in alerts' : r.alert_id = Val(alert).alert_id
            /\ \A r \in alerts' :
                   r.alert_id = Val(alert).alert_id => r.sent_at = Null
            /\ alert' = Null
            /\ pc' \in {"price_loop", "job_loop"}
       /\ (/\ pc \in {"price_loop", "job_loop"}
           /\ results # <<>>
           /\ last'.alert_hash # <<>>) =>
            \A s \in sendLog :
                (/\ s.alert_hash = last'.alert_hash
                 /\ now - s.at < DedupWindowHours
                 /\ \A d \in delivered : d.alert_id # s.alert_id)
                    => last'.outcome = "duplicate"]_vars

\* C11 witness: an alert whose sends all failed is met again by a later cycle
\* of the same process, within the window, and is turned away as a duplicate;
\* nothing was counted for the day of the failed attempt.
C11_Witness ==
    /\ epoch = 0
    /\ last.outcome = "duplicate"
    /\ \E s \in sendLog : /\ s.alert_hash = last.alert_hash
                          /\ s.at < now
                          /\ now - s.at < DedupWindowHours
                          /\ \A d \in delivered : d.alert_id # s.alert_id
                          /\ daily_alert_counts[<<last.user_id, Date(s.at)>>] = 0

\* C12: a candidate whose row was created one hour ago is refused as a
\* duplicate, and a candidate whose latest row was created 7 hours ago is
\* admitted again (a new row is written).
C12_WindowExpires ==
    [][(now' = now /\ last'.alert_hash # <<>>) =>
          LET rows == {r \in alerts : r.alert_hash = last'.alert_hash} IN
          /\ (\E r \in rows : r.created_at = now - 1) =>
                 /\ last'.outcome = "duplicate"
                 /\ alerts' = alerts
          /\ (rows # {} /\ \A r \in rows : r.created_at <= now - 7) =>
                 /\ last'.outcome = "saved"
                 /\ \E r \in alerts' \ alerts :
                        /\ r.alert_hash = last'.alert_hash
                        /\ r.created_at = now]_vars

\* C12 witness: a candidate admitted at T was admitted again at T + 7 hours.
C12_Witness ==
    /\ last.outcome = "saved"
    /\ \E r1, r2 \in alerts :
          /\ r1.alert_hash = last.alert_hash
          /\ r2.alert_hash = last.alert_hash
          /\ r2.created_at = now
          /\ r1.created_at = now - 7
          /\ \A r \in alerts : r.alert_hash = last.alert_hash => r \in {r1, r2}

\* C13: the daily limit is decided before the duplicate check: a candidate met
\* while its recipient's count has reached the limit is turned away for the
\* limit, and the duplicate check (with the row it writes) does not take place.
C13_LimitBeforeDedup ==
    [][(/\ pc \in {"price_loop", "job_loop"}
        /\ results # <<>>
        /\ last'.alert_hash # <<>>
        /\ daily_alert_counts[<<last'.user_id, Date(now)>>]
               >= Val(pref).max_alerts_per_day) =>
           /\ last'.outcome = "daily_limit"
           /\ alerts' = alerts]_vars

\* C14: the next occurrence of a reminder is its scheduled time + 1 day for
\* daily, + 7 days for weekly, + 30 days for monthly (in hours: 24, 168, 720),
\* and null for recurrence none.
C14_NextOccurrence ==
    \A i \in 1..Len(reminders) :
        LET r == reminders[i] IN
        /\ r.recurrence = "daily" => r.next_occurrence = {r.scheduled_time + 24}
        /\ r.recurrence = "weekly" => r.next_occurrence = {r.scheduled_time + 168}
        /\ r.recurrence = "monthly" => r.next_occurrence = {r.scheduled_time + 720}
        /\ r.recurrence = "none" => r.next_occurrence = {}

\* C14 witness: a monthly reminder due at hour 0 has its next occurrence 30
\* days later, and the reminder created from it is due then, with its own
\* next occurrence a further 30 days later.
C14_Witness ==
    \E i, j \in 1..Len(reminders) :
        /\ reminders[i].recurrence = "monthly"
        /\ reminders[i].scheduled_time = 0
        /\ reminders[i].next_occurrence = {720}
        /\ reminders[j].reminder_id # reminders[i].reminder_id
        /\ reminders[j].scheduled_time = 720
        /\ reminders[j].next_occurrence = {1440}

\* The ids cancel_reminder is called with: those of the store, those a caller
\* may create, and one no reminder has.
CancelIds ==
    ReminderIds \cup {reminders[i].reminder_id : i \in 1..Len(reminders)}
                \cup {<<"unknown">>}

\* C15: for every id, of a reminder of the store or not, cancelling twice
\* leaves the store as cancelling once does.
C15_CancelIdempotent ==
    \A id \in CancelIds :
        Cancelled(Cancelled(reminders, id), id) = Cancelled(reminders, id)

\* C15 witness: a reminder of a user who has not opted out is cancelled, a
\* further cancel_reminder changes nothing, and neither does one for an id
\* the store does not hold.
C15_Witness ==
    \E i \in 1..Len(reminders) :
        /\ reminders[i].status = "cancelled"
        /\ \A x \in users[reminders[i].user_id] : ~x.opt_out
        /\ Cancelled(reminders, reminders[i].reminder_id) = reminders
        /\ Cancelled(reminders, <<"unknown">>) = reminders

\* C16: cancel_reminder leaves a reminder whose status is sent as it is.
C16_CancelSentNoOp ==
    [][\A i \in 1..Len(reminders) :
          reminders[i].status = "sent" => reminders'[i] = reminders[i]]_vars

\* C17: opting a recipient out (or in) twice gives the state opting out (or in)
\* once gives, in the reminder service and in the alert service, and for a
\* recipient the service does not know it changes nothing.
C17_OptIdempotent ==
    /\ \A u \in RUsers, flag \in BOOLEAN :
          /\ WithOptOut(WithOptOut(users, u, flag), u, flag)
                 = WithOptOut(users, u, flag)
          /\ users[u] = Null => WithOptOut(users, u, flag) = users
    /\ \A u \in Users :
          /\ OptedOut(OptedOut(user_preferences, u), u)
                 = OptedOut(user_preferences, u)
          /\ user_preferences[u] = Null
                 => OptedOut(user_preferences, u) = user_preferences

\* C17 witness: the recipient is opted out in both services, and a further
\* opt-out changes neither.
C17_Witness ==
    /\ \E x \in users["u1"] : x.opt_out
    /\ \E p \in user_preferences["u1"] : ~p.opted_in
    /\ WithOptOut(users, "u1", TRUE) = users
    /\ OptedOut(user_preferences, "u1") = user_preferences

\* C18: create_reminder stores no reminder whose scheduled time is not in the
\* future.
C18_PastTimeRejected ==
    [][\A j \in (Len(reminders) + 1)..Len(reminders') :
          reminders'[j].reminder_id \in ReminderIds
              => reminders'[j].scheduled_time > now]_vars

\* The send of reminder id by method has returned ok among the results rs.
ReturnedIn(rs, id, method, ok) ==
    [reminder_id |-> id, method |-> method, ok |-> ok] \in rs

\* C19: the SMS send of a reminder is attempted exactly when its WhatsApp send
\* failed; when a send succeeds the reminder becomes sent, when the SMS send
\* fails too it becomes failed, and a reminder is failed only after both sends
\* failed.
C19_FallbackChain ==
    [][/\ \A i \in 1..Len(reminders') :
            LET id == reminders'[i].reminder_id IN
            /\ (\E a \in remLog' : a.reminder_id = id /\ a.method = "sms")
                   <=> ReturnedIn(remResults', id, "whatsapp", FALSE)
            /\ reminders'[i].status = "failed" =>
                   /\ ReturnedIn(remResults', id, "whatsapp", FALSE)
                   /\ ReturnedIn(remResults', id, "sms", FALSE)
       /\ \A x \in remResults' \ remResults :
            LET status == GetReminder(reminders', x.reminder_id).status IN
            /\ x.ok => status = "sent"
            /\ (x.method = "sms" /\ ~x.ok) => status = "failed"
            /\ (x.method = "whatsapp" /\ ~x.ok) =>
                   status = GetReminder(reminders, x.reminder_id).status]_vars

\* C19 witness: the WhatsApp send of a reminder failed, its SMS send succeeded,
\* and the reminder is sent.
C19_Witness ==
    \E i \in 1..Len(reminders) :
        /\ reminders[i].status = "sent"
        /\ ReturnedIn(remResults, reminders[i].reminder_id, "whatsapp", FALSE)
        /\ ReturnedIn(remResults, reminders[i].reminder_id, "sms", TRUE)

\* C20: at most one call of a cycle is in progress at any time: a call of
\* send_reminders never starts while another call of it on the same store has
\* not ended.
C20_OneCycleAtATime ==
    Cardinality({r \in Runners : runs[r].pc # "idle"}) <= 1

\* C21: the duplicate check and the insert of save_alert are one atomic unit
\* per fingerprint: of two concurrent calls with one fingerprint exactly one
\* inserts, so no two rows of one fingerprint are created less than a dedup
\* window apart.
C21_CheckInsertAtomic ==
    \A r1, r2 \in alerts :
        (r1 # r2 /\ r1.alert_hash = r2.alert_hash) =>
            \/ r1.created_at - r2.created_at >= DedupWindowHours
            \/ r2.created_at - r1.created_at >= DedupWindowHours

\* C22: an error raised while one candidate is processed never prevents the
\* cycle's remaining candidates from being processed: after the error the
\* cycle is still at the same loop, with the rest of its candidates and users.
C22_FailuresIsolated ==
    [][(pc \in {"price_loop", "job_loop"} /\ last'.outcome = "error") =>
          /\ pc' = pc
          /\ results' = Tail(results)
          /\ user_prefs' = user_prefs
          /\ pref' = pref]_vars

\* C23: a due reminder whose user is not in the store is marked failed when a
\* cycle comes to it (and so is not selected by a later cycle).
C23_UnknownUserFailed ==
    [][(/\ rpc = "loop"
        /\ pending # <<>>
        /\ users[GetReminder(reminders, Head(pending)).user_id] = Null) =>
          GetReminder(reminders', Head(pending)).status = "failed"]_vars

\* C24: once stop_polling has been called, no candidate whose processing had
\* not begun is admitted (no row is written for it, no send of it starts).
C24_StopBetweenCandidates ==
    [][~is_running => (alerts' = alerts /\ sendLog' = sendLog)]_vars

\* C25: when the cycle comes to a recipient during the recipient's quiet hours
\* (23:00-00:00, at 23:00), the recipient is dropped for the cycle: no row is
\* written, the daily counter is unchanged, nothing is sent, no search is
\* started and nothing is kept for later; the cycle goes on to the next user.
C25_QuietDropped ==
    [][(/\ pc = "users"
        /\ user_prefs # <<>>
        /\ Head(user_prefs).quiet_hours_start = <<23, 0>>
        /\ Head(user_prefs).quiet_hours_end = <<0, 0>>
        /\ now % HoursPerDay = 23
        /\ epoch' = epoch) =>
          /\ alerts' = alerts
          /\ daily_alert_counts' = daily_alert_counts
          /\ sendLog' = sendLog
          /\ delivered' = delivered
          /\ pc' = "users"
          /\ user_prefs' = Tail(user_prefs)
          /\ results' = <<>>
          /\ alert' = Null]_vars

\* C25 witness: a recipient was skipped for quiet hours, and the cycle has
\* written and sent nothing.
C25_Witness ==
    /\ last.outcome = "quiet_hours"
    /\ last.user_id \in Users
    /\ now % HoursPerDay = 23
    /\ pc = "users"
    /\ results = <<>>
    /\ alert = Null

\* C26: registering a recipient again does not clear an opt-out: the alert
\* service has no opt-in operation, so a row of user_preferences that is opted
\* out stays opted out.
C26_OptOutKept ==
    [][\A u \in Users :
          (\E p \in user_preferences[u] : ~p.opted_in) =>
              (\E p \in user_preferences'[u] : ~p.opted_in)]_vars

\* C27: the daily counter of every (recipient, date) never decreases; the
\* counter of a new day is another key, and the earlier day's counter stays.
C27_CounterMonotonic ==
    [][\A k \in DOMAIN daily_alert_counts :
          daily_alert_counts'[k] >= daily_alert_counts[k]]_vars

\* C27 witness: an alert was counted on day 0 and another on day 1, each under
\* its own key.
C27_Witness ==
    \E u \in Users :
        /\ Date(now) = 1
        /\ daily_alert_counts[<<u, 0>>] = 1
        /\ daily_alert_counts[<<u, 1>>] = 1

\* C28: in every state of the store a reminder has a next occurrence iff its
\* recurrence is not none, and the next occurrence lies one recurrence period
\* after the scheduled time; so it is for the reminders create_reminder made
\* and for those made after a recurring delivery.
C28_NextOccurrenceIffRecurring ==
    \A i \in 1..Len(reminders) :
        LET r == reminders[i]
            period == CASE r.recurrence = "daily" -> HoursPerDay
                        [] r.recurrence = "weekly" -> 7 * HoursPerDay
                        [] r.recurrence = "monthly" -> 30 * HoursPerDay
                        [] OTHER -> 0
        IN /\ r.next_occurrence # Null <=> r.recurrence # "none"
           /\ \A t \in r.next_occurrence : t - r.scheduled_time = period

\* C28 witness: a weekly reminder was delivered, and the reminder made from it
\* is due a week after it and has its own next occurrence a week later.
C28_Witness ==
    \E i, j \in 1..Len(reminders) :
        /\ reminders[i].recurrence = "weekly"
        /\ reminders[i].status = "sent"
        /\ Len(reminders[j].reminder_id) > Len(reminders[i].reminder_id)
        /\ reminders[j].status = "pending"
        /\ reminders[j].scheduled_time = reminders[i].scheduled_time + 7 * HoursPerDay
        /\ reminders[j].next_occurrence = {reminders[i].scheduled_time + 14 * HoursPerDay}

\* C29: when a webhook answers an opt-out keyword of a sender the store holds
\* with "unsubscribed", the sender's opt-out flag is set in the store.
C29_WebhookOptOut ==
    [][\A x \in webhook' :
          (webhook' # webhook /\ x.reply = "unsubscribed"
               /\ users[x.from] # Null) =>
              \A u \in users'[x.from] : u.opt_out]_vars

\* C30: POST /events answers a request the event service rejects with HTTP
\* 400 and the service's message.
C30_RejectedIs400 ==
    \A x \in response :
        ~x.success =>
            /\ x.status = 400
            /\ x.detail \in {"Event start time must be in the future",
                             "Event end time must be after start time"}

\* C31: each calendar event gets at most one successfully sent reminder: under
\* any interleaving of the scheduler's job and the manually triggered runs of
\* send_reminders, no event has two reminder sends that succeeded.
C31_AtMostOneReminder ==
    \A n1, n2 \in notified : n1.event_id = n2.event_id => n1 = n2

\* C32: an alert row is written only for a candidate whose delivery is then
\* attempted: a candidate _send_alert turns away because the recipient has
\* reached the daily limit leaves the alerts table as it was.
C32_RateLimitedNotSaved ==
    [][(pc \in {"price_loop", "job_loop"} /\ last'.outcome = "daily_limit")
          => alerts' = alerts]_vars

\* C33: with max_alerts_per_day unchanged and one cycle at a time, the daily
\* counter of every (recipient, date) never exceeds the recipient's
\* max_alerts_per_day, also when one cycle has more fresh candidates (price
\* drops and job matches) than the day still allows.
C33_CounterWithinLimit ==
    \A u \in Users, d \in 0..Date(MaxTime) + 1 :
        daily_alert_counts[<<u, d>>] <= UserPreference(u, TRUE).max_alerts_per_day

\* C33 witness: the day's counter stands at the limit and a further fresh
\* candidate of the same cycle was turned away by _send_alert.
C33_Witness ==
    /\ pc \in {"price_loop", "job_loop"}
    /\ last.outcome = "daily_limit"
    /\ last.alert_hash # <<>>
    /\ daily_alert_counts[<<last.user_id, Date(now)>>]
           = UserPreference(last.user_id, TRUE).max_alerts_per_day

SendStartsFor(id) ==
    \E r \in Runners : /\ runs'[r] # runs[r]
                       /\ runs'[r].pc = "notify"
                       /\ Head(runs'[r].events_to_remind) = id

\* An earlier send of event id's reminder has failed.
SendFailedFor(id) == \E f \in notifyFailed : f.event_id = id

\* C36: an event whose reminder send fails stays scheduled; every later call of
\* send_reminders made while start_time - reminder_minutes <= now < start_time
\* selects it again; and once now >= start_time no send is started for it and
\* its status does not change.
C36_FailedRetriedUntilStart ==
    [][/\ \A i \in 1..Len(events) :
            (SendFailedFor(events[i].id)' /\ ~SendFailedFor(events[i].id))
                => events'[i].status = "scheduled"
       /\ \A r \in Runners, i \in 1..Len(events) :
            (/\ runs[r].pc = "idle"
             /\ runs'[r] # runs[r]
             /\ SendFailedFor(events[i].id)
             /\ events[i].status = "scheduled"
             /\ calNow >= events[i].start_time - events[i].reminder_minutes
             /\ calNow < events[i].start_time)
                => \E k \in 1..Len(runs'[r].events_to_remind) :
                       runs'[r].events_to_remind[k] = events[i].id
       /\ \A i \in 1..Len(events) :
            (SendFailedFor(events[i].id) /\ calNow >= events[i].start_time)
                => /\ ~SendStartsFor(events[i].id)
                   /\ events'[i].status = events[i].status]_vars

\* C37: every completed call of send_reminders returns counts with
\* reminders_sent + reminders_failed = events_processed, and reminders_sent is
\* the number of events whose status that call changed from scheduled to
\* reminded.
C37_CountsAddUp ==
    \A r \in Runners :
        (runs[r].pc = "idle" /\ runs[r].results # Null) =>
            LET res == Val(runs[r].results) IN
            /\ res.reminders_sent + res.reminders_failed = res.events_processed
            /\ res.reminders_sent = runs[r].changed

\* C38: create_reminder for a user_id the store does not hold raises an error
\* and leaves the store as it was: no reminder is saved and no user created.
C38_UnknownUserRejected ==
    [][\A u \in RUsers :
          (/\ created' # created
           /\ \E x \in created' : x.user_id = u
           /\ users[u] = Null)
              => /\ created' = Some(CreateEnd(u, "ValueError"))
                 /\ reminders' = reminders
                 /\ users' = users]_vars

\* C38 witness: create_reminder has raised for a user the store does not hold,
\* and the store holds no reminder and no user.
C38_Witness ==
    /\ \E x \in created : x.error = "ValueError" /\ users[x.user_id] = Null
    /\ reminders = <<>>
    /\ \A u \in RUsers : users[u] = Null

\* C39: after stop_polling was called no new polling cycle starts and the loop
\* of start_polling eventually ends; the loop ends only after stop_polling was
\* called, and after an exception of a cycle it is back at its sleep.
C39_StopEndsLoop ==
    /\ [][~is_running => cycles' = cycles]_vars
    /\ [][pc' = "done" => ~is_running]_vars
    /\ [][(last'.outcome = "error" /\ last.outcome # "error") => pc' = "idle"]_vars
    /\ (~is_running ~> pc = "done")

\* C39 witness: a cycle raised an exception, the loop went to its sleep,
\* stop_polling was called, and the loop has ended.
C39_Witness ==
    /\ pc = "done"
    /\ ~is_running
    /\ last.outcome = "error"
    /\ cycles >= 1

====
